---- MODULE Spec2Model ----
(***************************************************************************)
(* Lineup protection projection tool: the LineupProtectionProcessor of     *)
(* data_processor.py and the callers of app.py, as a state machine.        *)
(*                                                                         *)
(* A DataFrame is a sequence of rows; a row is a record of cells.  A cell  *)
(* is a tuple: <<>> is NaN/None, <<v>> is an id, an integer or a string,   *)
(* <<n, d>> is the float n/d (d = 0: +/- infinity).  Floats are modelled   *)
(* as exact rationals; plate coordinates are integers in 1/100 ft.         *)
(***************************************************************************)
EXTENDS Integers, Sequences, FiniteSets, TLC

VARIABLES
    files,              \* the CSV files of data_dir, as tables
    statcast,           \* processor.statcast:          <<>> (None) or <<table>>
    batting,            \* processor.batting
    pitching,           \* processor.pitching
    park_factors,       \* processor.park_factors
    woba_constants,     \* processor.woba_constants
    protection_scores,  \* processor.protection_scores
    pc,                 \* position of the caller (load_data / __main__)
    df,                 \* build_full_dataset's working table
    classified,         \* calculate_pitch_quality_by_batter's local df
    pitch_quality,      \* its return value
    pitcher_opp,        \* calculate_pitcher_quality_faced's return value
    out,                \* build_full_dataset's return value: <<>> or <<table>>
    error,              \* the error a caller stopped on: its kind and the names in it
    first,              \* the table an earlier build_full_dataset returned to the caller
    passed,             \* the table last passed to a stage: <<as passed, as it is after the call>>
    trace,              \* the stages the current build_full_dataset has called, in order
    adjusted            \* calculate_adjusted_woba's return value: <<>> or <<table>>

vars == <<files, statcast, batting, pitching, park_factors, woba_constants,
          protection_scores, pc, df, classified, pitch_quality, pitcher_opp, out,
          error, first, passed, trace, adjusted>>

(***************************************************************************)
(* Cells and float arithmetic (numpy semantics on exact rationals).        *)
(***************************************************************************)
NaN == <<>>

IsNaN(c) == c = <<>>

Abs(n) == IF n < 0 THEN -n ELSE n

RECURSIVE GCD(_, _)
GCD(a, b) == IF b = 0 THEN a ELSE GCD(b, a % b)

\* the float n/d in lowest terms; n/0 is +/-inf, 0/0 is NaN
Rat(n, d) ==
    IF d = 0
    THEN (IF n = 0 THEN NaN ELSE IF n > 0 THEN <<1, 0>> ELSE <<-1, 0>>)
    ELSE LET g == GCD(Abs(n), Abs(d))
             s == IF d < 0 THEN -1 ELSE 1
         IN  <<(s * n) \div g, (s * d) \div g>>

Num(n) == <<n, 1>>

\* an integer cell read as a float
ToFloat(c) == IF IsNaN(c) THEN NaN ELSE <<c[1], 1>>

Add(a, b) ==
    IF IsNaN(a) \/ IsNaN(b) THEN NaN
    ELSE IF a[2] = 0 \/ b[2] = 0
         THEN Rat(a[1] * b[2] + b[1] * a[2], a[2] * b[2])
         ELSE LET g == GCD(a[2], b[2])
              IN  Rat(a[1] * (b[2] \div g) + b[1] * (a[2] \div g),
                      (a[2] \div g) * b[2])

Neg(a) == IF IsNaN(a) THEN NaN ELSE <<-a[1], a[2]>>

Sub(a, b) == Add(a, Neg(b))

Mul(a, b) ==
    IF IsNaN(a) \/ IsNaN(b) THEN NaN
    ELSE LET g1 == GCD(Abs(a[1]), b[2])
             g2 == GCD(Abs(b[1]), a[2])
         IN  IF g1 = 0 \/ g2 = 0
             THEN Rat(a[1] * b[1], a[2] * b[2])
             ELSE Rat((a[1] \div g1) * (b[1] \div g2),
                      (a[2] \div g2) * (b[2] \div g1))

\* faulty variant: 0 / 0 is taken as 0
Div_ZeroByZero(a, b) ==
    IF IsNaN(a) \/ IsNaN(b) THEN NaN
    ELSE IF a[1] = 0 /\ b[1] = 0 THEN Num(0)
    ELSE Mul(a, IF b[1] < 0 THEN <<-b[2], -b[1]>> ELSE <<b[2], b[1]>>)

Div(a, b) ==
    IF IsNaN(a) \/ IsNaN(b) THEN NaN
    ELSE Mul(a, IF b[1] < 0 THEN <<-b[2], -b[1]>> ELSE <<b[2], b[1]>>)

\* Series.fillna(v)
FillNa(c, v) == IF IsNaN(c) THEN v ELSE c

RECURSIVE SumCells(_)
SumCells(s) == IF s = <<>> THEN Num(0) ELSE Add(Head(s), SumCells(Tail(s)))

RECURSIVE DropNaCells(_)
DropNaCells(s) ==
    IF s = <<>> THEN <<>>
    ELSE IF IsNaN(Head(s)) THEN DropNaCells(Tail(s))
         ELSE <<Head(s)>> \o DropNaCells(Tail(s))

\* Series.mean(): NaN cells are skipped; the mean of nothing is NaN
Mean(s) ==
    LET v == DropNaCells(s)
    IN  IF v = <<>> THEN NaN ELSE Div(SumCells(v), Num(Len(v)))

Column(t, c) == [i \in 1..Len(t) |-> t[i][c]]

(***************************************************************************)
(* Table helpers (pandas semantics).                                       *)
(***************************************************************************)
RECURSIVE SortSet(_)
SortSet(S) ==
    IF S = {} THEN <<>>
    ELSE LET m == CHOOSE x \in S : \A y \in S : x <= y
         IN  <<m>> \o SortSet(S \ {m})

\* the sorted non-null keys of a groupby on column c
GroupKeys(t, c) ==
    SortSet({t[i][c][1] : i \in {j \in 1..Len(t) : ~IsNaN(t[j][c])}})

Group(t, c, k) == SelectSeq(t, LAMBDA r : r[c] = <<k>>)

\* (x == label).mean() over the rows of a group
Fraction(g, labels) ==
    Rat(Len(SelectSeq(g, LAMBDA r : r.pitch_zone \in labels)), Len(g))

\* faulty variant: how='inner', a left row without a match is dropped
RECURSIVE LeftMerge_Inner(_, _, _, _, _)
LeftMerge_Inner(left, right, lkey, rkey, nulls) ==
    IF left = <<>> THEN <<>>
    ELSE LET l == Head(left)
             m == SelectSeq(right, LAMBDA r : r[rkey] = l[lkey])
         IN  [i \in 1..Len(m) |-> l @@ m[i]]
                \o LeftMerge_Inner(Tail(left), right, lkey, rkey, nulls)

\* faulty variant: a column of both tables keeps the right table's cells
RECURSIVE LeftMerge_RightWins(_, _, _, _, _)
LeftMerge_RightWins(left, right, lkey, rkey, nulls) ==
    IF left = <<>> THEN <<>>
    ELSE LET l == Head(left)
             m == SelectSeq(right, LAMBDA r : r[rkey] = l[lkey])
             rows == IF m = <<>> THEN <<nulls @@ l>>
                     ELSE [i \in 1..Len(m) |-> m[i] @@ l]
         IN  rows \o LeftMerge_RightWins(Tail(left), right, lkey, rkey, nulls)

\* DataFrame.merge(how='left'): every left row is kept, once per matching
\* right row (equal keys; NaN keys match each other), with nulls when none.
\* A column of both tables keeps the left table's cells: with suffixes=('',
\* '_drop') the right table's copy is renamed and then dropped (lines
\* 207-208); the other merges join tables with no column in common.
RECURSIVE LeftMerge(_, _, _, _, _)
LeftMerge(left, right, lkey, rkey, nulls) ==
    IF left = <<>> THEN <<>>
    ELSE LET l == Head(left)
             m == SelectSeq(right, LAMBDA r : r[rkey] = l[lkey])
             rows == IF m = <<>> THEN <<l @@ nulls>>
                     ELSE [i \in 1..Len(m) |-> l @@ m[i]]
         IN  rows \o LeftMerge(Tail(left), right, lkey, rkey, nulls)

\* DataFrame.drop_duplicates(): the first occurrence of each row is kept
RECURSIVE DropDuplicates(_)
DropDuplicates(t) ==
    IF t = <<>> THEN <<>>
    ELSE LET init == DropDuplicates(SubSeq(t, 1, Len(t) - 1))
             last == t[Len(t)]
         IN  IF \E i \in 1..Len(init) : init[i] = last THEN init
             ELSE Append(init, last)

(***************************************************************************)
(* 4.1 pitch zones                                                         *)
(***************************************************************************)
\* faulty variant: the heart margin is added to the zone instead of taken off it
classify_pitch_location_WideHeart(plate_x, plate_z, sz_top, sz_bot) ==
    LET heart_top == sz_top + 50
        heart_bot == sz_bot - 50
    IN  IF /\ -33 <= plate_x /\ plate_x <= 33
           /\ heart_bot <= plate_z /\ plate_z <= heart_top
        THEN "heart"
        ELSE IF /\ -83 <= plate_x /\ plate_x <= 83
                /\ sz_bot <= plate_z /\ plate_z <= sz_top
        THEN "zone"
        ELSE IF /\ -133 <= plate_x /\ plate_x <= 133
                /\ sz_bot - 50 <= plate_z /\ plate_z <= sz_top + 50
        THEN "chase"
        ELSE "waste"

classify_pitch_location(plate_x, plate_z, sz_top, sz_bot) ==
    LET zone_left == -83
        zone_right == 83
        heart_left == -33
        heart_right == 33
        heart_top == sz_top - 50
        heart_bot == sz_bot + 50
        chase_buffer == 50
    IN  IF /\ heart_left <= plate_x /\ plate_x <= heart_right
           /\ heart_bot <= plate_z /\ plate_z <= heart_top
        THEN "heart"
        ELSE IF /\ zone_left <= plate_x /\ plate_x <= zone_right
                /\ sz_bot <= plate_z /\ plate_z <= sz_top
        THEN "zone"
        ELSE IF /\ zone_left - chase_buffer <= plate_x
                /\ plate_x <= zone_right + chase_buffer
                /\ sz_bot - chase_buffer <= plate_z
                /\ plate_z <= sz_top + chase_buffer
        THEN "chase"
        ELSE "waste"

\* the lambda of df.apply: a comparison with NaN is False
ClassifyRow(r) ==
    IF IsNaN(r.plate_x) \/ IsNaN(r.plate_z) \/ IsNaN(r.sz_top) \/ IsNaN(r.sz_bot)
    THEN "waste"
    ELSE classify_pitch_location(r.plate_x[1], r.plate_z[1], r.sz_top[1], r.sz_bot[1])

\* faulty variant: no dropna, a pitch without coordinates stays in the frame
DropNaCoords_KeepAll(t) == t

\* df.dropna(subset=['plate_x', 'plate_z'])
DropNaCoords(t) ==
    SelectSeq(t, LAMBDA r : ~IsNaN(r.plate_x) /\ ~IsNaN(r.plate_z))

\* faulty variant: missing bounds are left missing
FillBounds_NoDefault(t) == t

\* df['sz_top'].fillna(3.5), df['sz_bot'].fillna(1.5)
FillBounds(t) ==
    [i \in 1..Len(t) |->
        [t[i] EXCEPT !.sz_top = FillNa(@, <<350>>), !.sz_bot = FillNa(@, <<150>>)]]

\* the local df of calculate_pitch_quality_by_batter, with its pitch_zone column
ClassifiedPitches(sc) ==
    LET t == FillBounds(DropNaCoords(sc))
    IN  [i \in 1..Len(t) |-> t[i] @@ [pitch_zone |-> ClassifyRow(t[i])]]

\* faulty variant: zone_pct counts the zone label alone
ZonePct_ZoneOnly(g) == Fraction(g, {"zone"})

ZonePct(g) == Fraction(g, {"heart", "zone"})

PitchQualityRow(g, k) ==
    [batter        |-> <<k>>,
     heart_pct     |-> Fraction(g, {"heart"}),
     total_pitches |-> <<Len(SelectSeq(g, LAMBDA r : ~IsNaN(r.plate_x)))>>,
     zone_pct      |-> ZonePct(g),
     chase_pct     |-> Fraction(g, {"chase"}),
     waste_pct     |-> Fraction(g, {"waste"})]

calculate_pitch_quality_by_batter(cl) ==
    LET keys == GroupKeys(cl, "batter")
    IN  [i \in 1..Len(keys) |-> PitchQualityRow(Group(cl, "batter", keys[i]), keys[i])]

(***************************************************************************)
(* 4.2 pitcher quality faced                                               *)
(***************************************************************************)
PitcherQuality(pt) ==
    LET lg_fip == Mean(Column(pt, "FIP"))
    IN  [i \in 1..Len(pt) |->
            [pitcher   |-> pt[i].MLBAMID,
             FIP       |-> pt[i].FIP,
             xFIP      |-> pt[i].xFIP,
             ERA       |-> pt[i].ERA,
             FIP_minus |-> Mul(Div(pt[i].FIP, lg_fip), Num(100))]]

\* faulty variant: every pitch is kept
FacedTriples_EveryPitch(sc) ==
    [i \in 1..Len(sc) |->
        [batter |-> sc[i].batter, pitcher |-> sc[i].pitcher, game_pk |-> sc[i].game_pk]]

\* statcast[['batter', 'pitcher', 'game_pk']].drop_duplicates()
FacedTriples(sc) ==
    DropDuplicates([i \in 1..Len(sc) |->
        [batter |-> sc[i].batter, pitcher |-> sc[i].pitcher, game_pk |-> sc[i].game_pk]])

\* faulty variant: only FIP is filled
FillPitcher_FipOnly(t, lg_fip) ==
    [i \in 1..Len(t) |-> [t[i] EXCEPT !.FIP = FillNa(@, lg_fip)]]

\* FIP_minus.fillna(100), FIP.fillna(lg_fip)
FillPitcher(t, lg_fip) ==
    [i \in 1..Len(t) |->
        [t[i] EXCEPT !.FIP_minus = FillNa(@, Num(100)), !.FIP = FillNa(@, lg_fip)]]

PitcherOppRow(g, k) ==
    [batter                |-> <<k>>,
     avg_pitcher_fip_minus |-> Mean(Column(g, "FIP_minus")),
     avg_pitcher_fip       |-> Mean(Column(g, "FIP")),
     unique_pitchers_faced |->
        <<Cardinality({g[i].pitcher : i \in {j \in 1..Len(g) : ~IsNaN(g[j].pitcher)}})>>]

calculate_pitcher_quality_faced(sc, pt) ==
    LET lg_fip == Mean(Column(pt, "FIP"))
        m == LeftMerge(FacedTriples(sc), PitcherQuality(pt), "pitcher", "pitcher",
                       [FIP |-> NaN, xFIP |-> NaN, ERA |-> NaN, FIP_minus |-> NaN])
        t == FillPitcher(m, lg_fip)
        keys == GroupKeys(t, "batter")
    IN  [i \in 1..Len(keys) |-> PitcherOppRow(Group(t, "batter", keys[i]), keys[i])]

(***************************************************************************)
(* 4.4 protection merge and 4.3 park adjustment                            *)
(***************************************************************************)
\* batting.merge(prot[[...]], left_on='MLBAMID', right_on='batter_id', how='left')
ProtectionColumns ==
    {"batter_id", "avg_protection_score", "games", "total_pa", "avg_batting_order"}

merge_protection_scores(bt, prot) ==
    LeftMerge(bt, [i \in 1..Len(prot) |-> [c \in ProtectionColumns |-> prot[i][c]]],
              "MLBAMID", "batter_id", [c \in ProtectionColumns |-> NaN])

team_map ==
    ("Angels" :> "LAA") @@ ("Astros" :> "HOU") @@ ("Athletics" :> "OAK") @@
    ("Blue Jays" :> "TOR") @@ ("Braves" :> "ATL") @@ ("Brewers" :> "MIL") @@
    ("Cardinals" :> "STL") @@ ("Cubs" :> "CHC") @@ ("Diamondbacks" :> "ARI") @@
    ("Dodgers" :> "LAD") @@ ("Giants" :> "SFG") @@ ("Guardians" :> "CLE") @@
    ("Mariners" :> "SEA") @@ ("Marlins" :> "MIA") @@ ("Mets" :> "NYM") @@
    ("Nationals" :> "WSN") @@ ("Orioles" :> "BAL") @@ ("Padres" :> "SDP") @@
    ("Phillies" :> "PHI") @@ ("Pirates" :> "PIT") @@ ("Rangers" :> "TEX") @@
    ("Rays" :> "TBR") @@ ("Red Sox" :> "BOS") @@ ("Reds" :> "CIN") @@
    ("Rockies" :> "COL") @@ ("Royals" :> "KCR") @@ ("Tigers" :> "DET") @@
    ("Twins" :> "MIN") @@ ("White Sox" :> "CHW") @@ ("Yankees" :> "NYY")

\* pf['Team'].map(team_map): a name that is no key maps to NaN
TeamAbbr(team) ==
    IF ~IsNaN(team) /\ team[1] \in DOMAIN team_map THEN <<team_map[team[1]]>> ELSE NaN

\* pf[['Team_Abbr', 'park_factor']]
ParkTable(pf) ==
    [i \in 1..Len(pf) |->
        [Team_Abbr |-> TeamAbbr(pf[i].Team), park_factor |-> pf[i].Basic5yr]]

\* faulty variant: an unmatched park factor is left missing
FillParkFactor_None(c) == c

\* df['park_factor'].fillna(100)
FillParkFactor(c) == FillNa(c, Num(100))

\* df['wOBA'] * (100 / df['park_factor'])
ParkAdjusted(woba, park_factor) == Mul(woba, Div(Num(100), park_factor))

calculate_park_adjusted_stats(d, pf) ==
    LET m == LeftMerge(d, ParkTable(pf), "Team", "Team_Abbr",
                       [Team_Abbr |-> NaN, park_factor |-> NaN])
        f == [i \in 1..Len(m) |-> [m[i] EXCEPT !.park_factor = FillParkFactor(@)]]
    IN  [i \in 1..Len(f) |->
            f[i] @@ [wOBA_park_adj |-> ParkAdjusted(f[i].wOBA, f[i].park_factor)]]

(***************************************************************************)
(* 4.5 true talent                                                         *)
(***************************************************************************)
HasWeights(wc) == \E i \in 1..Len(wc) : wc[i].Season = <<2024>>

\* woba_constants[Season == 2024].iloc[0]
get_2024_woba_weights(wc) ==
    LET w2024 == SelectSeq(wc, LAMBDA r : r.Season = <<2024>>)[1]
    IN  [wOBA_scale |-> w2024.wOBAScale, R_PA |-> w2024.R_PA]

ProtectionAdj(score, lg_protection) ==
    LET protection_coef == Rat(15, 100)
    IN  Mul(Sub(FillNa(score, lg_protection), lg_protection), protection_coef)

PitcherAdj(avg_pitcher_fip_minus) ==
    LET pitcher_coef == Rat(1, 1000)
    IN  Mul(Sub(Num(100), FillNa(avg_pitcher_fip_minus, Num(100))), pitcher_coef)

PitchQualityAdj(heart_pct, lg_heart_pct) ==
    LET heart_coef == Rat(15, 100)
    IN  Mul(Sub(FillNa(heart_pct, lg_heart_pct), lg_heart_pct), heart_coef)

\* faulty variant: pitcher_adj is removed like the other three terms
TrueTalent_PitcherSubtracted(woba, protection_adj, park_adj, pitcher_adj, pitch_quality_adj) ==
    Sub(Sub(Sub(Sub(woba, protection_adj), park_adj), pitcher_adj), pitch_quality_adj)

TrueTalent(woba, protection_adj, park_adj, pitcher_adj, pitch_quality_adj) ==
    Sub(Add(Sub(Sub(woba, protection_adj), park_adj), pitcher_adj), pitch_quality_adj)

Regress(talent, lg_woba) ==
    LET regression_factor == Rat(10, 100)
    IN  Add(Mul(talent, Sub(Num(1), regression_factor)), Mul(lg_woba, regression_factor))

LeagueWoba(d) == Mean(Column(d, "wOBA"))

\* lines 218-251: the columns assigned before the linear weights are read
AdjustmentColumns(d) ==
    LET lg_woba == LeagueWoba(d)
        lg_protection == Mean(Column(d, "avg_protection_score"))
        lg_heart_pct == IF d # <<>> /\ "heart_pct" \in DOMAIN d[1]
                        THEN Mean(Column(d, "heart_pct")) ELSE Rat(15, 100)
        adj(r) == [protection_adj    |-> ProtectionAdj(r.avg_protection_score, lg_protection),
                   park_adj          |-> Sub(r.wOBA, r.wOBA_park_adj),
                   pitcher_adj       |-> PitcherAdj(r.avg_pitcher_fip_minus),
                   pitch_quality_adj |-> PitchQualityAdj(r.heart_pct, lg_heart_pct)]
        tt(r, a) == [wOBA_true_talent |->
                        Regress(TrueTalent(r.wOBA, a.protection_adj, a.park_adj,
                                           a.pitcher_adj, a.pitch_quality_adj), lg_woba)]
    IN  [i \in 1..Len(d) |-> d[i] @@ adj(d[i]) @@ tt(d[i], adj(d[i]))]

\* lines 253-262: wRAA, wRC+ and the total context adjustment
RateColumns(d, lg_woba, weights) ==
    LET lg_rppa == weights.R_PA
        wraa(r) == Mul(Div(Sub(r.wOBA_true_talent, lg_woba), weights.wOBA_scale),
                       ToFloat(r.PA))
        wrc(r) == Mul(Div(Add(Div(wraa(r), ToFloat(r.PA)), lg_rppa), lg_rppa), Num(100))
        total(r) == Add(Sub(Add(r.protection_adj, r.park_adj), r.pitcher_adj),
                        r.pitch_quality_adj)
    IN  [i \in 1..Len(d) |->
            d[i] @@ [wRAA_true_talent     |-> wraa(d[i]),
                     wRC_plus_true_talent |-> wrc(d[i]),
                     total_context_adj    |-> total(d[i])]]

calculate_true_talent(d, wc) ==
    RateColumns(AdjustmentColumns(d), LeagueWoba(d), get_2024_woba_weights(wc))

(***************************************************************************)
(* build_full_dataset as a function of the six tables of the processor.    *)
(***************************************************************************)
\* faulty variant: a batter without a pitch-quality row gets no total_pitches
PitchQualityNulls_NoTotal ==
    [batter |-> NaN, heart_pct |-> NaN,
     zone_pct |-> NaN, chase_pct |-> NaN, waste_pct |-> NaN]

PitchQualityNulls ==
    [batter |-> NaN, heart_pct |-> NaN, total_pitches |-> NaN,
     zone_pct |-> NaN, chase_pct |-> NaN, waste_pct |-> NaN]

PitcherOppNulls ==
    [batter |-> NaN, avg_pitcher_fip_minus |-> NaN, avg_pitcher_fip |-> NaN,
     unique_pitchers_faced |-> NaN]

build_full_dataset(sc, bt, pt, pf, wc, prot) ==
    LET merged == merge_protection_scores(bt, prot)
        parked == calculate_park_adjusted_stats(merged, pf)
        pq == calculate_pitch_quality_by_batter(ClassifiedPitches(sc))
        with_pq == LeftMerge(parked, pq, "MLBAMID", "batter", PitchQualityNulls)
        opp == calculate_pitcher_quality_faced(sc, pt)
        with_opp == LeftMerge(with_pq, opp, "MLBAMID", "batter", PitcherOppNulls)
    IN  calculate_true_talent(with_opp, wc)

(***************************************************************************)
(* calculate_adjusted_woba of app.py and of debug_app.py.                  *)
(***************************************************************************)
LayerNames == {"Lineup Protection", "Park Factors", "Pitcher Quality", "Pitch Location"}

\* name in layers
Selected(layers, name) == \E i \in 1..Len(layers) : layers[i] = name

\* faulty variant: the terms are used without fillna(0)
AdjustRow_NoFill(r, layers) ==
    LET a1 == IF Selected(layers, "Lineup Protection")
              THEN Sub(r.wOBA, r.protection_adj) ELSE r.wOBA
        t1 == IF Selected(layers, "Lineup Protection")
              THEN Add(Num(0), r.protection_adj) ELSE Num(0)
        a2 == IF Selected(layers, "Park Factors") THEN Sub(a1, r.park_adj) ELSE a1
        t2 == IF Selected(layers, "Park Factors") THEN Add(t1, r.park_adj) ELSE t1
        a3 == IF Selected(layers, "Pitcher Quality") THEN Add(a2, r.pitcher_adj) ELSE a2
        t3 == IF Selected(layers, "Pitcher Quality") THEN Sub(t2, r.pitcher_adj) ELSE t2
        a4 == IF Selected(layers, "Pitch Location")
              THEN Sub(a3, r.pitch_quality_adj) ELSE a3
        t4 == IF Selected(layers, "Pitch Location")
              THEN Add(t3, r.pitch_quality_adj) ELSE t3
    IN  r @@ [adjusted_wOBA |-> a4, total_selected_adj |-> t4,
              wOBA_diff |-> Sub(a4, r.wOBA)]

\* app.py lines 80-99, one row: the four tests in the order of the code
AdjustRow(r, layers) ==
    LET a1 == IF Selected(layers, "Lineup Protection")
              THEN Sub(r.wOBA, FillNa(r.protection_adj, Num(0))) ELSE r.wOBA
        t1 == IF Selected(layers, "Lineup Protection")
              THEN Add(Num(0), FillNa(r.protection_adj, Num(0))) ELSE Num(0)
        a2 == IF Selected(layers, "Park Factors")
              THEN Sub(a1, FillNa(r.park_adj, Num(0))) ELSE a1
        t2 == IF Selected(layers, "Park Factors")
              THEN Add(t1, FillNa(r.park_adj, Num(0))) ELSE t1
        a3 == IF Selected(layers, "Pitcher Quality")
              THEN Add(a2, FillNa(r.pitcher_adj, Num(0))) ELSE a2
        t3 == IF Selected(layers, "Pitcher Quality")
              THEN Sub(t2, FillNa(r.pitcher_adj, Num(0))) ELSE t2
        a4 == IF Selected(layers, "Pitch Location")
              THEN Sub(a3, FillNa(r.pitch_quality_adj, Num(0))) ELSE a3
        t4 == IF Selected(layers, "Pitch Location")
              THEN Add(t3, FillNa(r.pitch_quality_adj, Num(0))) ELSE t3
    IN  r @@ [adjusted_wOBA |-> a4, total_selected_adj |-> t4,
              wOBA_diff |-> Sub(a4, r.wOBA)]

\* app.py: the rows of df.copy() with the three columns assigned
calculate_adjusted_woba(d, layers) == [i \in 1..Len(d) |-> AdjustRow(d[i], layers)]

\* x -= y and x += y on a column of the copy
ISub(x, y) == Sub(x, y)

IAdd(x, y) == Add(x, y)

\* debug_app.py lines 147-166, one row: the same tests with augmented
\* assignments on both columns
AdjustRowDebug(r, layers) ==
    LET zero == Num(0)
        a1 == IF Selected(layers, "Lineup Protection")
              THEN ISub(r.wOBA, FillNa(r.protection_adj, zero)) ELSE r.wOBA
        t1 == IF Selected(layers, "Lineup Protection")
              THEN IAdd(zero, FillNa(r.protection_adj, zero)) ELSE zero
        a2 == IF Selected(layers, "Park Factors")
              THEN ISub(a1, FillNa(r.park_adj, zero)) ELSE a1
        t2 == IF Selected(layers, "Park Factors")
              THEN IAdd(t1, FillNa(r.park_adj, zero)) ELSE t1
        a3 == IF Selected(layers, "Pitcher Quality")
              THEN IAdd(a2, FillNa(r.pitcher_adj, zero)) ELSE a2
        t3 == IF Selected(layers, "Pitcher Quality")
              THEN ISub(t2, FillNa(r.pitcher_adj, zero)) ELSE t2
        a4 == IF Selected(layers, "Pitch Location")
              THEN ISub(a3, FillNa(r.pitch_quality_adj, zero)) ELSE a3
        t4 == IF Selected(layers, "Pitch Location")
              THEN IAdd(t3, FillNa(r.pitch_quality_adj, zero)) ELSE t3
    IN  r @@ [adjusted_wOBA |-> a4, total_selected_adj |-> t4,
              wOBA_diff |-> Sub(a4, r.wOBA)]

calculate_adjusted_woba_debug(d, layers) ==
    [i \in 1..Len(d) |-> AdjustRowDebug(d[i], layers)]

(***************************************************************************)
(* The files of data_dir the runs are checked on.                          *)
(***************************************************************************)
MaxRows == 2        \* rows of the protection summary
MaxPitches == 2     \* rows of the pitch-event table (zone runs)

SeqsUpTo(S, n) == UNION {[1..k -> S] : k \in 0..n}

Pitch(b, p, x, z, top, bot) ==
    [batter |-> <<b>>, pitcher |-> <<p>>, game_pk |-> <<1>>,
     plate_x |-> x, plate_z |-> z, sz_top |-> top, sz_bot |-> bot]

BatterA ==
    [MLBAMID |-> <<1>>, Name |-> <<"A">>, Team |-> <<"NYY">>, PA |-> <<8>>,
     wOBA |-> Rat(3, 10)]

BatterB ==
    [MLBAMID |-> <<2>>, Name |-> <<"B">>, Team |-> <<"- - -">>, PA |-> <<0>>,
     wOBA |-> Rat(2, 5)]

BattingTables == {<<BatterA>>, <<BatterB>>, <<BatterA, BatterB>>}

ProtectionRow(b, score) ==
    [batter_id |-> <<b>>, avg_protection_score |-> score, games |-> <<2>>,
     total_pa |-> <<8>>, avg_batting_order |-> Rat(7, 2), season |-> <<2024>>]

ProtectionRows == {ProtectionRow(1, Rat(1, 2)), ProtectionRow(2, Rat(3, 10))}

ParkRow(team, factor) == [Team |-> <<team>>, Basic5yr |-> Num(factor)]

\* park-factor tables: none, one or two rows of the Yankees, and a team name
\* that is no key of team_map, alone and before a row of the Yankees
ParkTables ==
    {<<>>,
     <<ParkRow("Yankees", 125)>>,
     <<ParkRow("Yankees", 100)>>,
     <<ParkRow("Yankees", 125), ParkRow("Yankees", 100)>>,
     <<ParkRow("Expos", 110)>>,
     <<ParkRow("Expos", 110), ParkRow("Yankees", 100)>>}

PitcherP == [MLBAMID |-> <<7>>, FIP |-> Num(3), xFIP |-> Num(4), ERA |-> Num(2)]
PitcherQ == [MLBAMID |-> <<9>>, FIP |-> Num(5), xFIP |-> Num(4), ERA |-> Num(6)]

PitchingTables == {<<>>, <<PitcherP>>, <<PitcherP, PitcherQ>>}

Weights(season) == [Season |-> <<season>>, wOBAScale |-> Rat(5, 4), R_PA |-> Rat(1, 8)]

WobaTables == {<<Weights(2023), Weights(2024)>>, <<Weights(2023)>>}

\* pitch-event tables of the join runs: batter 1 alone, facing pitcher 8 or
\* pitcher 7 (beside a batter 2 whose only pitch has no coordinates), both
\* batters, and batter 1 facing pitcher 7 twice in one game and once in
\* another; pitcher 8 is in no pitcher table
JoinStatcasts ==
    {<<Pitch(1, 8, <<0>>, <<250>>, NaN, NaN)>>,
     <<Pitch(1, 7, <<0>>, <<250>>, NaN, NaN), Pitch(2, 7, NaN, <<250>>, NaN, NaN)>>,
     <<Pitch(1, 8, <<0>>, <<250>>, NaN, NaN), Pitch(2, 7, <<150>>, <<250>>, <<340>>, <<160>>)>>,
     <<Pitch(1, 7, NaN, <<250>>, NaN, NaN), Pitch(1, 7, <<50>>, <<250>>, NaN, NaN),
       Pitch(1, 8, <<0>>, <<250>>, NaN, NaN),
       [Pitch(1, 7, <<0>>, <<250>>, NaN, NaN) EXCEPT !.game_pk = <<2>>]>>}

\* DataFrame.drop(columns=[c])
WithoutColumn(t, c) ==
    [i \in 1..Len(t) |-> [k \in DOMAIN t[i] \ {c} |-> t[i][k]]]

\* the pitch-event files the join runs read: the tables above, and one whose
\* header has no plate_x
JoinStatcastFiles ==
    JoinStatcasts \cup {WithoutColumn(<<Pitch(1, 8, <<0>>, <<250>>, NaN, NaN)>>, "plate_x")}

\* the sidebar's checkboxes, all ticked by default
AllLayers == <<"Lineup Protection", "Park Factors", "Pitcher Quality", "Pitch Location">>

\* the tables read from the files; statcast_df is the pitch-event table
\* load_data reads for itself before it builds the processor, layers the
\* list of layers the caller of calculate_adjusted_woba passes
Files(sc, bt, pt, pf, wc, prot) ==
    [statcast |-> sc, statcast_df |-> sc, batting |-> bt, pitching |-> pt,
     park_factors |-> pf, woba_constants |-> wc, protection_scores |-> prot,
     layers |-> AllLayers]

\* runs in which the caller's pitch-event table is not what the processor
\* would read
CallerFiles ==
    {[Files(<<Pitch(1, 8, <<0>>, <<250>>, NaN, NaN)>>, bt, <<PitcherP>>, <<>>, wc, <<>>)
        EXCEPT !.statcast_df = <<Pitch(2, 7, <<150>>, <<250>>, <<340>>, <<160>>)>>] :
        bt \in BattingTables, wc \in WobaTables}

JoinFiles ==
    {Files(sc, bt, pt, pf, wc, prot) :
        sc \in JoinStatcastFiles, bt \in BattingTables, pt \in PitchingTables,
        pf \in ParkTables, wc \in WobaTables,
        prot \in SeqsUpTo(ProtectionRows, MaxRows)}
    \cup CallerFiles

\* zone runs: one pitch anywhere on a grid around every edge of the three
\* rectangles, under regular, narrow, degenerate and inverted strike zones
PlateXs == {-134, -133, -84, -83, -34, -33, 0, 33, 34, 83, 84, 133, 134}

PlateZs == {99, 100, 149, 150, 151, 199, 200, 201, 249, 250, 251,
            299, 300, 301, 349, 350, 351, 399, 400, 401}

ZoneTops == {350, 300, 200}

ZoneBots == {150, 200, 300}

GridStatcasts ==
    {<<Pitch(1, 7, <<x>>, <<z>>, <<top>>, <<bot>>)>> :
        x \in PlateXs, z \in PlateZs, top \in ZoneTops, bot \in ZoneBots}

\* zone runs: up to MaxPitches pitches of two batters, with and without
\* coordinates and bounds
PitchShapes ==
    {<<<<0>>, <<250>>, NaN, NaN>>, <<<<0>>, <<290>>, NaN, NaN>>,
     <<<<0>>, <<290>>, <<330>>, NaN>>, <<<<50>>, <<250>>, NaN, <<160>>>>,
     <<<<100>>, <<250>>, NaN, NaN>>, <<<<150>>, <<250>>, <<340>>, <<160>>>>,
     <<NaN, <<250>>, NaN, NaN>>, <<<<0>>, NaN, <<350>>, <<150>>>>}

ZonePitches == {Pitch(b, 7, s[1], s[2], s[3], s[4]) : b \in {1, 2}, s \in PitchShapes}

HasLocatedPitch(sc) ==
    \E i \in 1..Len(sc) : ~IsNaN(sc[i].plate_x) /\ ~IsNaN(sc[i].plate_z)

ZoneStatcasts ==
    GridStatcasts \cup {sc \in SeqsUpTo(ZonePitches, MaxPitches) : HasLocatedPitch(sc)}

ZoneFiles ==
    {Files(sc, <<BatterA, BatterB>>, <<PitcherP>>, <<>>, <<Weights(2024)>>, <<>>) :
        sc \in ZoneStatcasts}

\* layer runs: every list of layer names, in any order and with repeats, on
\* two batters with and without protection scores (without them the
\* protection term of every batter is null)
LayerLists == SeqsUpTo(LayerNames, Cardinality(LayerNames))

LayerFiles ==
    {[Files(<<Pitch(1, 8, <<0>>, <<250>>, NaN, NaN),
              Pitch(2, 7, <<150>>, <<250>>, <<340>>, <<160>>)>>,
            <<BatterA, BatterB>>, <<PitcherP, PitcherQ>>,
            <<ParkRow("Yankees", 125)>>, <<Weights(2024)>>, prot)
        EXCEPT !.layers = l] :
        prot \in {<<>>, <<ProtectionRow(1, Rat(1, 2)), ProtectionRow(2, Rat(3, 10))>>},
        l \in LayerLists}

(***************************************************************************)
(* The processor and its callers.                                          *)
(***************************************************************************)
NoError == [kind |-> "", names |-> {}]

\* DataFrame.columns of a table with rows
Columns(t) == DOMAIN t[1]

required_cols == {"plate_x", "plate_z"}

\* faulty variant: no missing column is found
MissingColumns_None(t, subset) == {}

\* the names of subset that are no column of t
MissingColumns(t, subset) == subset \ Columns(t)

InitOn(F) ==
    /\ files \in F
    /\ statcast = <<>> /\ batting = <<>> /\ pitching = <<>>
    /\ park_factors = <<>> /\ woba_constants = <<>> /\ protection_scores = <<>>
    /\ pc = "new"
    /\ df = <<>> /\ classified = <<>> /\ pitch_quality = <<>> /\ pitcher_opp = <<>>
    /\ out = <<>>
    /\ error = NoError
    /\ first = <<>>
    /\ passed = <<>>
    /\ trace = <<>>
    /\ adjusted = <<>>

Init == InitOn(JoinFiles)

InitZone == InitOn(ZoneFiles)

InitLayers == InitOn(LayerFiles)

\* app.py load_data: the required columns are validated, st.error names the
\* missing ones and st.stop() ends the script; else processor.statcast =
\* statcast_df
SetStatcast ==
    /\ pc = "new" /\ statcast = <<>>
    /\ LET missing == MissingColumns(files.statcast_df, required_cols)
       IN  IF missing # {}
           THEN /\ error' = [kind |-> "st.error", names |-> missing]
                /\ pc' = "stopped"
                /\ statcast' = statcast
           ELSE /\ statcast' = <<files.statcast_df>>
                /\ UNCHANGED <<pc, error>>
    /\ UNCHANGED <<files, adjusted, first, passed, trace, batting, pitching, park_factors,
                   woba_constants, protection_scores, df, classified, pitch_quality, pitcher_opp, out>>

\* faulty variant: the pitch-event files are read whatever is set
load_all_data_Reread ==
    /\ pc = "new"
    /\ statcast' = <<files.statcast>>
    /\ batting' = <<files.batting>>
    /\ pitching' = <<files.pitching>>
    /\ park_factors' = <<files.park_factors>>
    /\ woba_constants' = <<files.woba_constants>>
    /\ protection_scores' = <<files.protection_scores>>
    /\ pc' = "loaded"
    /\ UNCHANGED <<files, adjusted, first, passed, trace, df, classified, pitch_quality,
                   pitcher_opp, out, error>>

load_all_data ==
    /\ pc = "new"
    /\ statcast' = IF statcast = <<>> THEN <<files.statcast>> ELSE statcast
    /\ batting' = <<files.batting>>
    /\ pitching' = <<files.pitching>>
    /\ park_factors' = <<files.park_factors>>
    /\ woba_constants' = <<files.woba_constants>>
    /\ protection_scores' = <<files.protection_scores>>
    /\ pc' = "loaded"
    /\ UNCHANGED <<files, adjusted, first, passed, trace, df, classified, pitch_quality,
                   pitcher_opp, out, error>>

tables == <<statcast, batting, pitching, park_factors, woba_constants, protection_scores>>

\* faulty variant: the merged table is stored back into self.batting
MergeProtection_InPlace ==
    /\ pc = "loaded"
    /\ df' = merge_protection_scores(batting[1], protection_scores[1])
    /\ batting' = <<df'>>
    /\ pc' = "protection"
    /\ trace' = Append(trace, "merge_protection_scores")
    /\ UNCHANGED <<files, adjusted, first, passed, statcast, pitching, park_factors, woba_constants,
                   protection_scores, classified, pitch_quality, pitcher_opp, out, error>>

\* build_full_dataset, line 196
MergeProtection ==
    /\ pc = "loaded"
    /\ df' = merge_protection_scores(batting[1], protection_scores[1])
    /\ pc' = "protection"
    /\ trace' = Append(trace, "merge_protection_scores")
    /\ UNCHANGED <<files, adjusted, first, passed, tables, classified, pitch_quality, pitcher_opp, out, error>>

\* line 199; the stage rebinds its parameter to the merged frame (line 185),
\* the table passed in keeps its columns
ParkAdjust ==
    /\ pc = "protection"
    /\ df' = calculate_park_adjusted_stats(df, park_factors[1])
    /\ passed' = <<df, df>>
    /\ pc' = "park"
    /\ trace' = Append(trace, "calculate_park_adjusted_stats")
    /\ UNCHANGED <<files, adjusted, first, tables, classified, pitch_quality, pitcher_opp, out, error>>

\* lines 202-203; dropna(subset=['plate_x', 'plate_z']) at line 96 raises a
\* KeyError listing the names of subset that are no column
PitchQuality ==
    /\ pc = "park"
    /\ IF required_cols \subseteq Columns(statcast[1])
       THEN /\ classified' = ClassifiedPitches(statcast[1])
            /\ pitch_quality' = calculate_pitch_quality_by_batter(classified')
            /\ df' = LeftMerge(df, pitch_quality', "MLBAMID", "batter", PitchQualityNulls)
            /\ pc' = "pitch_quality"
            /\ error' = error
       ELSE /\ error' = [kind  |-> "KeyError",
                         names |-> MissingColumns(statcast[1], {"plate_x", "plate_z"})]
            /\ pc' = "aborted"
            /\ UNCHANGED <<df, classified, pitch_quality>>
    /\ trace' = Append(trace, "calculate_pitch_quality_by_batter")
    /\ UNCHANGED <<files, adjusted, first, passed, tables, pitcher_opp, out>>

\* lines 206-208: the right table's batter column becomes batter_drop and is dropped
PitcherOpp ==
    /\ pc = "pitch_quality"
    /\ pitcher_opp' = calculate_pitcher_quality_faced(statcast[1], pitching[1])
    /\ df' = LeftMerge(df, pitcher_opp', "MLBAMID", "batter", PitcherOppNulls)
    /\ pc' = "pitcher_opp"
    /\ trace' = Append(trace, "calculate_pitcher_quality_faced")
    /\ UNCHANGED <<files, adjusted, first, passed, tables, classified, pitch_quality, out, error>>

\* the caller keeps the returned table and calls build_full_dataset again on
\* the same processor: the locals of the new call are fresh
Rerun ==
    /\ pc = "done" /\ first = <<>>
    /\ first' = out
    /\ pc' = "loaded"
    /\ df' = <<>> /\ classified' = <<>> /\ pitch_quality' = <<>> /\ pitcher_opp' = <<>>
    /\ out' = <<>>
    /\ passed' = <<>>
    /\ trace' = <<>>
    /\ UNCHANGED <<files, adjusted, tables, error>>

\* faulty variant: the estimation step is called again on the finished table
TrueTalentStep_Repeated ==
    /\ pc \in {"pitcher_opp", "done"} /\ Len(trace) < 6
    /\ HasWeights(woba_constants[1])
    /\ df' = calculate_true_talent(df, woba_constants[1])
    /\ out' = <<df'>>
    /\ pc' = "done"
    /\ passed' = <<df, df'>>
    /\ trace' = Append(trace, "calculate_true_talent")
    /\ UNCHANGED <<files, adjusted, first, tables, classified, pitch_quality, pitcher_opp, error>>

\* lines 211-214; get_2024_woba_weights raises IndexError without a 2024 row.
\* calculate_true_talent assigns its columns into the table passed in and
\* returns that table
TrueTalentStep ==
    /\ pc = "pitcher_opp"
    /\ IF HasWeights(woba_constants[1])
       THEN /\ df' = calculate_true_talent(df, woba_constants[1])
            /\ out' = <<df'>>
            /\ pc' = "done"
            /\ error' = error
       ELSE /\ df' = AdjustmentColumns(df)
            /\ out' = out
            /\ pc' = "aborted"
            /\ error' = [kind |-> "IndexError", names |-> {}]
    /\ passed' = <<df, df'>>
    /\ trace' = Append(trace, "calculate_true_talent")
    /\ UNCHANGED <<files, adjusted, first, tables, classified, pitch_quality, pitcher_opp>>

\* app.py lines 130-131: the returned table is passed to
\* calculate_adjusted_woba, which works on df.copy()
AdjustWoba ==
    /\ pc = "done"
    /\ adjusted' = <<calculate_adjusted_woba(out[1], files.layers)>>
    /\ passed' = <<out[1], out[1]>>
    /\ pc' = "shown"
    /\ UNCHANGED <<files, first, trace, tables, df, classified, pitch_quality,
                   pitcher_opp, out, error>>

Next ==
    \/ SetStatcast
    \/ load_all_data
    \/ MergeProtection
    \/ ParkAdjust
    \/ PitchQuality
    \/ PitcherOpp
    \/ TrueTalentStep
    \/ Rerun
    \/ AdjustWoba

Spec == Init /\ [][Next]_vars

SpecZone == InitZone /\ [][Next]_vars

SpecLayers == InitLayers /\ [][Next]_vars

(***************************************************************************)
(* Properties.                                                             *)
(***************************************************************************)
Leq(a, b) == a[1] * b[2] <= b[1] * a[2]

HasCoords(r) == ~IsNaN(r.plate_x) /\ ~IsNaN(r.plate_z)

\* the pitch events of batter b, and those of them with both coordinates
PitchesOf(b) == SelectSeq(statcast[1], LAMBDA r : r.batter = b)

LocatedOf(b) == SelectSeq(PitchesOf(b), HasCoords)

LabelledOf(b, labels) ==
    Len(SelectSeq(classified, LAMBDA r : r.batter = b /\ r.pitch_zone \in labels))

\* calculate_pitch_quality_by_batter has returned
Classified == pc \in {"pitch_quality", "pitcher_opp", "done", "aborted"}

InHeart(r) ==
    /\ -33 <= r.plate_x[1] /\ r.plate_x[1] <= 33
    /\ r.sz_bot[1] + 50 <= r.plate_z[1] /\ r.plate_z[1] <= r.sz_top[1] - 50

InZone(r) ==
    /\ -83 <= r.plate_x[1] /\ r.plate_x[1] <= 83
    /\ r.sz_bot[1] <= r.plate_z[1] /\ r.plate_z[1] <= r.sz_top[1]

InChase(r) ==
    /\ -133 <= r.plate_x[1] /\ r.plate_x[1] <= 133
    /\ r.sz_bot[1] - 50 <= r.plate_z[1] /\ r.plate_z[1] <= r.sz_top[1] + 50

\* C3: every pitch with coordinates gets exactly one of heart, zone, chase,
\* waste, by the precedence heart > zone > chase > waste, under any bounds;
\* a heart pitch lies inside the full strike-zone rectangle, and zone_pct
\* counts the heart pitches with the zone pitches.
C3_OneLabelByPrecedence ==
    Classified =>
        /\ \A i \in 1..Len(classified) :
            LET r == classified[i]
            IN  /\ r.pitch_zone \in {"heart", "zone", "chase", "waste"}
                /\ (r.pitch_zone = "heart") <=> InHeart(r)
                /\ (r.pitch_zone = "zone") <=> (~InHeart(r) /\ InZone(r))
                /\ (r.pitch_zone = "chase") <=>
                        (~InHeart(r) /\ ~InZone(r) /\ InChase(r))
                /\ (r.pitch_zone = "waste") <=>
                        (~InHeart(r) /\ ~InZone(r) /\ ~InChase(r))
                /\ (r.pitch_zone = "heart") => InZone(r)
        /\ \A j \in 1..Len(pitch_quality) :
            LET q == pitch_quality[j]
            IN  Mul(q.zone_pct, ToFloat(q.total_pitches))
                    = Num(LabelledOf(q.batter, {"heart"}) + LabelledOf(q.batter, {"zone"}))

\* the spec's scenario: plate_x=0.0, plate_z=2.5, sz_top=3.5, sz_bot=1.5 is heart
C3_HeartPitchClassified ==
    /\ Classified
    /\ \E i \in 1..Len(classified) :
        /\ classified[i].plate_x = <<0>> /\ classified[i].plate_z = <<250>>
        /\ classified[i].sz_top = <<350>> /\ classified[i].sz_bot = <<150>>
        /\ classified[i].pitch_zone = "heart"

\* C4: for every batter of the pitch-quality aggregate,
\* heart_pct + (zone_pct - heart_pct) + chase_pct + waste_pct = 1, and the
\* heart, zone-only, chase and waste counts add up to total_pitches.
C4_SharesSumToOne ==
    Classified =>
        \A j \in 1..Len(pitch_quality) :
            LET q == pitch_quality[j]
            IN  /\ Add(Add(Add(q.heart_pct, Sub(q.zone_pct, q.heart_pct)),
                           q.chase_pct), q.waste_pct) = Num(1)
                /\ LabelledOf(q.batter, {"heart"}) + LabelledOf(q.batter, {"zone"})
                     + LabelledOf(q.batter, {"chase"}) + LabelledOf(q.batter, {"waste"})
                     = q.total_pitches[1]

\* a batter whose pitches all have coordinates, half of them heart, half chase
C4_MixedBatterAggregated ==
    /\ Classified
    /\ \E j \in 1..Len(pitch_quality) :
        /\ pitch_quality[j].heart_pct = Rat(1, 2)
        /\ pitch_quality[j].chase_pct = Rat(1, 2)
        /\ Len(LocatedOf(pitch_quality[j].batter)) = Len(PitchesOf(pitch_quality[j].batter))

\* C5 as stated: the four shares heart_pct, zone_pct, chase_pct, waste_pct
\* sum to 1.
C5_FourSharesSumToOne ==
    Classified =>
        \A j \in 1..Len(pitch_quality) :
            LET q == pitch_quality[j]
            IN  Add(Add(Add(q.heart_pct, q.zone_pct), q.chase_pct), q.waste_pct) = Num(1)

\* C5 amended: zone_pct, chase_pct and waste_pct partition the unit interval
\* and sum to 1, heart_pct being a part of zone_pct (0 <= heart_pct <=
\* zone_pct); the denominator is the batter's pitches with both coordinates.
C5_ThreeSharesPartition ==
    Classified =>
        \A j \in 1..Len(pitch_quality) :
            LET q == pitch_quality[j]
                n == Num(Len(LocatedOf(q.batter)))
            IN  /\ Add(Add(q.zone_pct, q.chase_pct), q.waste_pct) = Num(1)
                /\ Leq(Num(0), q.heart_pct) /\ Leq(q.heart_pct, q.zone_pct)
                /\ Leq(Num(0), q.chase_pct) /\ Leq(Num(0), q.waste_pct)
                /\ Mul(q.heart_pct, n) = Num(LabelledOf(q.batter, {"heart"}))
                /\ Mul(q.chase_pct, n) = Num(LabelledOf(q.batter, {"chase"}))
                /\ Mul(q.waste_pct, n) = Num(LabelledOf(q.batter, {"waste"}))

\* a batter with a heart pitch and a pitch without coordinates
C5_HeartAndUnlocatedPitch ==
    /\ Classified
    /\ \E j \in 1..Len(pitch_quality) :
        /\ Leq(Rat(1, 2), pitch_quality[j].heart_pct)
        /\ Len(LocatedOf(pitch_quality[j].batter)) < Len(PitchesOf(pitch_quality[j].batter))

\* C6: a pitch without plate_x or plate_z is removed before classification:
\* it gets no label, is not counted in total_pitches and is in no
\* denominator; a pitch with coordinates and without sz_top / sz_bot is kept
\* and classified with top = 3.5, bottom = 1.5.
C6_UnlocatedDroppedBoundsDefaulted ==
    Classified =>
        LET loc == SelectSeq(statcast[1], HasCoords)
        IN  /\ Len(classified) = Len(loc)
            /\ \A i \in 1..Len(classified) :
                /\ HasCoords(classified[i])
                /\ classified[i].pitch_zone =
                     classify_pitch_location(
                        loc[i].plate_x[1], loc[i].plate_z[1],
                        IF IsNaN(loc[i].sz_top) THEN 350 ELSE loc[i].sz_top[1],
                        IF IsNaN(loc[i].sz_bot) THEN 150 ELSE loc[i].sz_bot[1])
            /\ \A i \in 1..Len(statcast[1]) :
                LET b == statcast[1][i].batter
                    rows == SelectSeq(pitch_quality, LAMBDA q : q.batter = b)
                IN  IF LocatedOf(b) = <<>> THEN rows = <<>>
                    ELSE /\ Len(rows) = 1
                         /\ rows[1].total_pitches = <<Len(LocatedOf(b))>>
                         /\ rows[1].heart_pct =
                              Rat(LabelledOf(b, {"heart"}), Len(LocatedOf(b)))

\* a pitch without plate_x beside a pitch that is heart only under the default
\* bounds (plate_z = 2.9, no sz_top)
C6_UnlocatedAndUnboundedPitch ==
    /\ Classified
    /\ \E i, k \in 1..Len(statcast[1]) :
        /\ IsNaN(statcast[1][i].plate_x)
        /\ statcast[1][k].plate_z = <<290>> /\ IsNaN(statcast[1][k].sz_top)
        /\ statcast[1][k].batter = statcast[1][i].batter
    /\ \E j \in 1..Len(pitch_quality) :
        pitch_quality[j].heart_pct = Num(1) /\ pitch_quality[j].total_pitches = <<1>>

\* build_full_dataset has returned its table
Built == pc = "done"

Ids(t) == {t[i].MLBAMID : i \in 1..Len(t)}

\* C1: the returned table has exactly one row per row of the batter season
\* table, whatever the protection summary and the park-factor table hold.
C1_OneRowPerBatter ==
    Built => Column(out[1], "MLBAMID") = Column(batting[1], "MLBAMID")

\* C2: every player id of the batter season table is in the table of every
\* stage and in the returned table, matched or not, and a run stops short
\* only for want of the season's linear weights, never for want of a match.
C2_NoBatterDropped ==
    /\ pc \in {"protection", "park", "pitch_quality", "pitcher_opp", "aborted"}
            => Ids(batting[1]) \subseteq Ids(df)
    /\ Built => Ids(batting[1]) \subseteq Ids(out[1])
    /\ pc = "aborted" =>
            \/ ~HasWeights(woba_constants[1])
            \/ ~(required_cols \subseteq Columns(statcast[1]))

\* a returned row of a batter matched by no protection row, no park row, no
\* pitch event and so no pitcher
C2_UnmatchedBatterReturned ==
    /\ Built
    /\ \E j \in 1..Len(out[1]) :
        /\ IsNaN(out[1][j].avg_protection_score) /\ IsNaN(out[1][j].Team_Abbr)
        /\ IsNaN(out[1][j].batter) /\ IsNaN(out[1][j].avg_pitcher_fip_minus)
        /\ PitchesOf(out[1][j].MLBAMID) = <<>>

TeamResolved(r) ==
    \E i \in 1..Len(park_factors[1]) : TeamAbbr(park_factors[1][i].Team) = r.Team

\* C7: a batter whose team resolves to no park-factor entry has park_factor
\* = 100, and every row with park_factor = 100 has wOBA_park_adj = wOBA and
\* park_adj = 0.
C7_NeutralParkFactor ==
    Built =>
        \A j \in 1..Len(out[1]) :
            LET r == out[1][j]
            IN  /\ ~TeamResolved(r) => r.park_factor = Num(100)
                /\ r.park_factor = Num(100) =>
                        r.wOBA_park_adj = r.wOBA /\ r.park_adj = Num(0)

\* an unresolved team beside a team whose park-factor entry is 100
C7_UnresolvedAndNeutralTeam ==
    /\ Built
    /\ \E j, k \in 1..Len(out[1]) :
        /\ ~TeamResolved(out[1][j]) /\ out[1][j].park_adj = Num(0)
        /\ TeamResolved(out[1][k]) /\ out[1][k].park_factor = Num(100)

\* the batter of row r faced no pitcher of the pitcher season table
NoResolvablePitcher(r) ==
    ~\E i \in 1..Len(statcast[1]), k \in 1..Len(pitching[1]) :
        /\ statcast[1][i].batter = r.MLBAMID
        /\ statcast[1][i].pitcher = pitching[1][k].MLBAMID

\* C8 as stated: in the returned table avg_pitcher_fip_minus is 100 for every
\* batter who faced no resolvable pitcher, with or without pitch events.
C8_FipMinusDefaultedInOutput ==
    Built =>
        \A j \in 1..Len(out[1]) :
            NoResolvablePitcher(out[1][j]) => out[1][j].avg_pitcher_fip_minus = Num(100)

\* C8 amended: avg_pitcher_fip_minus is 100 for every batter with pitch events
\* whose every faced pitcher is missing from the pitcher season table; for a
\* batter with no pitch events it is null in the returned table, and 100 is
\* used for it only in pitcher_adj, which is 0.
C8_FipMinusDefaultedWhenFaced ==
    Built =>
        \A j \in 1..Len(out[1]) :
            LET r == out[1][j]
            IN  NoResolvablePitcher(r) =>
                    /\ r.pitcher_adj = Num(0)
                    /\ IF PitchesOf(r.MLBAMID) = <<>>
                       THEN IsNaN(r.avg_pitcher_fip_minus)
                       ELSE r.avg_pitcher_fip_minus = Num(100)

\* a batter who faced only pitchers missing from a non-empty pitcher table,
\* beside a batter with no pitch events
C8_UnresolvedAndUnfacedBatter ==
    /\ Built /\ pitching[1] # <<>>
    /\ \E j, k \in 1..Len(out[1]) :
        /\ NoResolvablePitcher(out[1][j]) /\ PitchesOf(out[1][j].MLBAMID) # <<>>
        /\ PitchesOf(out[1][k].MLBAMID) = <<>>

InProtectionSummary(r) ==
    \E i \in 1..Len(protection_scores[1]) :
        protection_scores[1][i].batter_id = r.MLBAMID

\* C9: a batter absent from the protection summary has protection_adj = 0,
\* in every batter population.
C9_AbsentBatterZeroProtectionAdj ==
    Built =>
        \A j \in 1..Len(out[1]) :
            ~InProtectionSummary(out[1][j]) => out[1][j].protection_adj = Num(0)

\* C10: a row whose four adjustments are 0 has wOBA_true_talent =
\* wOBA * 0.9 + league-mean wOBA * 0.1, the league mean being the mean of
\* wOBA over the batter season table.
C10_ShrinkageBoundary ==
    Built =>
        \A j \in 1..Len(out[1]) :
            LET r == out[1][j]
            IN  (/\ r.protection_adj = Num(0) /\ r.park_adj = Num(0)
                 /\ r.pitcher_adj = Num(0) /\ r.pitch_quality_adj = Num(0))
                => r.wOBA_true_talent =
                     Add(Mul(r.wOBA, Rat(9, 10)),
                         Mul(Mean(Column(batting[1], "wOBA")), Rat(1, 10)))

\* the table with every PA of 0 replaced by 1
WithoutZeroPA(d) ==
    [i \in 1..Len(d) |-> [d[i] EXCEPT !.PA = IF @ = <<0>> THEN <<1>> ELSE @]]

\* C11: with the season's linear weights present, calculate_true_talent
\* returns for a table holding a batter with PA = 0 as for any other table
\* (the run reaches its end); the wRC+ true talent of that batter is NaN, and
\* the row of every other batter is the row it has when no PA is 0.
C11_ZeroPAUndefinedNoAbort ==
    /\ (pc = "aborted" /\ error.kind # "KeyError") => ~HasWeights(woba_constants[1])
    /\ Built =>
        LET given == passed[1]
            other == calculate_true_talent(WithoutZeroPA(given), woba_constants[1])
        IN  /\ Len(out[1]) = Len(given)
            /\ \A j \in 1..Len(given) :
                IF given[j].PA = <<0>>
                THEN IsNaN(out[1][j].wRC_plus_true_talent)
                ELSE out[1][j] = other[j]

\* a returned table with a batter of PA = 0 beside a batter whose wRC+ true
\* talent is a number
C11_ZeroPABesideRatedBatter ==
    /\ Built
    /\ \E j, k \in 1..Len(out[1]) :
        /\ out[1][j].PA = <<0>> /\ IsNaN(out[1][j].wRC_plus_true_talent)
        /\ out[1][j].wRAA_true_talent = Num(0)
        /\ out[1][k].PA # <<0>> /\ ~IsNaN(out[1][k].wRC_plus_true_talent)

LacksPlateX == "plate_x" \notin Columns(files.statcast)

\* C12: a run on a pitch-event table without a plate_x column never gets
\* past the start of the pitch-zone stage: no pitch is classified, neither
\* per-batter aggregate is computed and no table is returned; the run ends
\* on an error that names plate_x, raised before the processor is built by
\* load_data and by the pitch-zone stage's dropna otherwise.
C12_MissingPlateXAborts ==
    LacksPlateX =>
        /\ pc \in {"new", "loaded", "protection", "park", "stopped", "aborted"}
        /\ classified = <<>> /\ pitch_quality = <<>> /\ pitcher_opp = <<>>
        /\ out = <<>>
        /\ pc \in {"stopped", "aborted"} => "plate_x" \in error.names
        /\ pc = "stopped" => tables = <<<<>>, <<>>, <<>>, <<>>, <<>>, <<>>>>

\* build_full_dataset called on a processor that read a table without
\* plate_x itself: the two joins have run when the KeyError is raised
C12_KeyErrorAfterJoins ==
    /\ LacksPlateX
    /\ pc = "aborted" /\ error.kind = "KeyError" /\ error.names = {"plate_x"}
    /\ df # <<>> /\ out = <<>>

\* the batter of row r faced, in the pitch events sc, a pitcher missing from
\* the pitcher table pt: a default FIP-minus entered the row's mean
FacedMissingPitcher(r, sc, pt) ==
    \E i \in 1..Len(sc) :
        /\ sc[i].batter = r.MLBAMID
        /\ \A k \in 1..Len(pt) : pt[k].MLBAMID # sc[i].pitcher

PitcherDefaultRows(t, sc, pt) ==
    Cardinality({j \in 1..Len(t) : FacedMissingPitcher(t[j], sc, pt)})

\* the returned table shows which rows had no park-factor entry (Team_Abbr
\* is null) and which had no protection row (batter_id is null)
C13_TeamAndProtectionDefaultsVisible ==
    Built =>
        \A j \in 1..Len(out[1]) :
            /\ TeamResolved(out[1][j]) <=> ~IsNaN(out[1][j].Team_Abbr)
            /\ InProtectionSummary(out[1][j]) <=> ~IsNaN(out[1][j].batter_id)

\* C13: an unresolved key raises nothing, and the number of rows that used a
\* default is a function of the returned table, for each kind of key: two
\* runs that return the same table used the same number of defaults.
C13_DefaultsAuditable ==
    Built =>
        /\ C13_TeamAndProtectionDefaultsVisible
        /\ \A sc \in JoinStatcasts :
            build_full_dataset(sc, batting[1], pitching[1], park_factors[1],
                               woba_constants[1], protection_scores[1]) = out[1]
            => PitcherDefaultRows(out[1], sc, pitching[1])
                    = PitcherDefaultRows(out[1], statcast[1], pitching[1])

\* the batter cell a stage's aggregate t holds for the batter of row r: NaN
\* when the aggregate has no row for that batter
StageBatter(t, r) ==
    IF \E i \in 1..Len(t) : t[i].batter = r.MLBAMID THEN r.MLBAMID ELSE NaN

\* C14 as stated: the batter column of the returned table is the
\* pitcher-quality stage's (the most recent stage's) version.
C14_LatestStageColumnKept ==
    Built =>
        \A j \in 1..Len(out[1]) :
            out[1][j].batter = StageBatter(pitcher_opp, out[1][j])

\* C14 amended: the batter column of the returned table is the pitch-quality
\* stage's (the earlier stage's) version; the pitcher-quality stage's copy is
\* renamed batter_drop and dropped, and no column of that stage replaces a
\* column the table already had.
C14_EarlierStageColumnKept ==
    Built =>
        \A j \in 1..Len(out[1]) :
            /\ out[1][j].batter = StageBatter(pitch_quality, out[1][j])
            /\ "batter_drop" \notin DOMAIN out[1][j]

\* a returned batter whose pitches all lack coordinates: the pitch-quality
\* aggregate has no row for them and the pitcher-quality aggregate has one
C14_StagesDisagreeOnBatter ==
    /\ Built
    /\ \E j \in 1..Len(out[1]) :
        /\ IsNaN(StageBatter(pitch_quality, out[1][j]))
        /\ ~IsNaN(StageBatter(pitcher_opp, out[1][j]))
        /\ IsNaN(out[1][j].batter)

\* C15: the table build_full_dataset returns is a function of the six tables
\* of the processor, and a second call on the same processor returns a table
\* equal to the first call's.
C15_RerunReturnsEqualTable ==
    Built =>
        /\ out[1] = build_full_dataset(statcast[1], batting[1], pitching[1],
                                       park_factors[1], woba_constants[1],
                                       protection_scores[1])
        /\ first # <<>> => out = first

\* a second run has returned, on a protection summary that repeats a batter
C15_SecondRunReturned ==
    /\ Built /\ first # <<>>
    /\ Len(out[1]) > Len(batting[1])
    /\ \E j \in 1..Len(out[1]) : ~IsNaN(out[1][j].avg_protection_score)

\* the six tables are as load_all_data left them: the pitch events the
\* caller assigned or the files held, and the five tables of the files
LoadedTables ==
    /\ statcast \in {<<files.statcast>>, <<files.statcast_df>>}
    /\ <<batting, pitching, park_factors, woba_constants, protection_scores>>
         = <<<<files.batting>>, <<files.pitching>>, <<files.park_factors>>,
             <<files.woba_constants>>, <<files.protection_scores>>>>

\* C16: once loaded, the six tables of the processor hold what was loaded
\* through every stage, and a table passed to a stage is after the call as it
\* was passed.
C16_NoForeignTableMutated ==
    /\ pc \notin {"new", "stopped"} => LoadedTables
    /\ passed # <<>> => passed[2] = passed[1]

\* the loaded tables stay as loaded, and calculate_park_adjusted_stats leaves
\* the table passed to it as it was
C16_LoadedTablesAndParkArgumentKept ==
    /\ pc \notin {"new", "stopped"} => LoadedTables
    /\ (passed # <<>> /\ pc = "park") => passed[2] = passed[1]

\* the distinct (pitcher, game) pairs of batter b in the pitch events
FacedBy(b) ==
    {<<statcast[1][i].pitcher, statcast[1][i].game_pk>> :
        i \in {k \in 1..Len(statcast[1]) : statcast[1][k].batter = b}}

\* FIP-minus of pitcher p: FIP / league FIP * 100, and 100 for a pitcher
\* missing from the pitcher season table
FipMinusOf(p) ==
    IF \E k \in 1..Len(pitching[1]) : pitching[1][k].MLBAMID = p
    THEN LET k == CHOOSE k \in 1..Len(pitching[1]) : pitching[1][k].MLBAMID = p
         IN  Mul(Div(pitching[1][k].FIP, Mean(Column(pitching[1], "FIP"))), Num(100))
    ELSE Num(100)

RECURSIVE SumFipMinus(_)
SumFipMinus(S) ==
    IF S = {} THEN Num(0)
    ELSE LET x == CHOOSE x \in S : TRUE
         IN  Add(FipMinusOf(x[1]), SumFipMinus(S \ {x}))

ContractColumns ==
    {"MLBAMID", "Name", "Team", "PA", "wOBA",
     "protection_adj", "park_adj", "pitcher_adj", "pitch_quality_adj",
     "wOBA_true_talent", "total_context_adj",
     "heart_pct", "avg_pitcher_fip_minus", "avg_protection_score", "park_factor"}

\* the columns of the returned table
OutputColumns ==
    ContractColumns \cup ProtectionColumns \cup
    {"Team_Abbr", "wOBA_park_adj", "batter", "total_pitches", "zone_pct",
     "chase_pct", "waste_pct", "avg_pitcher_fip", "unique_pitchers_faced",
     "wRAA_true_talent", "wRC_plus_true_talent"}

\* C18 as stated: every returned row has the same columns in every run, and
\* among them the contract's columns and wRC+_true_talent.
C18_ContractColumnsPresent ==
    Built =>
        \A j \in 1..Len(out[1]) :
            /\ DOMAIN out[1][j] = DOMAIN out[1][1]
            /\ ContractColumns \cup {"wRC+_true_talent"} \subseteq DOMAIN out[1][j]

\* C18 amended: every returned row has the same columns in every run, matched
\* or not: the contract's columns, the wRC+ field under the name
\* wRC_plus_true_talent, and the other columns the joins and the estimator add.
C18_FixedColumnSet ==
    Built =>
        \A j \in 1..Len(out[1]) :
            /\ DOMAIN out[1][j] = OutputColumns
            /\ ContractColumns \cup {"wRC_plus_true_talent"} \subseteq DOMAIN out[1][j]
            /\ "wRC+_true_talent" \notin DOMAIN out[1][j]

\* a returned batter matched by every auxiliary table beside one matched by
\* none
C18_FullAndSparseRow ==
    /\ Built
    /\ \E j, k \in 1..Len(out[1]) :
        /\ ~IsNaN(out[1][j].avg_protection_score) /\ ~IsNaN(out[1][j].Team_Abbr)
        /\ ~IsNaN(out[1][j].heart_pct) /\ ~IsNaN(out[1][j].avg_pitcher_fip_minus)
        /\ IsNaN(out[1][k].avg_protection_score) /\ IsNaN(out[1][k].Team_Abbr)
        /\ IsNaN(out[1][k].heart_pct) /\ IsNaN(out[1][k].avg_pitcher_fip_minus)

\* the stages a stage consumes the output of
Consumes(stage) ==
    CASE stage = "merge_protection_scores" -> {}
      [] stage = "calculate_true_talent" ->
            {"merge_protection_scores", "calculate_park_adjusted_stats",
             "calculate_pitch_quality_by_batter", "calculate_pitcher_quality_faced"}
      [] OTHER -> {"merge_protection_scores"}

Calls(stage) == {i \in 1..Len(trace) : trace[i] = stage}

\* C19: in a run of build_full_dataset every stage is called after the stages
\* whose output it consumes, the estimation step after the protection merge,
\* the park adjustment and both per-batter aggregates; no stage is called
\* twice, and a run that returns has called the estimation step exactly once.
C19_TrueTalentOnceAfterInputs ==
    /\ \A i \in 1..Len(trace) :
        /\ Calls(trace[i]) = {i}
        /\ \A s \in Consumes(trace[i]) : \E k \in 1..(i - 1) : trace[k] = s
    /\ Built => Cardinality(Calls("calculate_true_talent")) = 1
    /\ Calls("calculate_true_talent") # {} =>
            DOMAIN PitchQualityNulls \cup DOMAIN PitcherOppNulls
                \cup ProtectionColumns \cup {"wOBA_park_adj"} \subseteq DOMAIN df[1]

\* a second run on the same processor has returned after its five stages
C19_FiveStagesInOrder ==
    /\ Built /\ first # <<>>
    /\ trace = <<"merge_protection_scores", "calculate_park_adjusted_stats",
                 "calculate_pitch_quality_by_batter", "calculate_pitcher_quality_faced",
                 "calculate_true_talent">>

\* C20: load_all_data keeps a pitch-event table that is already set and
\* reads the pitch-event files when none is; it sets batting, pitching, park
\* factors, wOBA constants and protection scores from their files in both
\* cases, so that all six tables are set when it returns.
C20_LoadKeepsAssignedStatcast ==
    [][(pc = "new" /\ pc' = "loaded") =>
            /\ statcast' = IF statcast # <<>> THEN statcast ELSE <<files.statcast>>
            /\ batting' = <<files.batting>>
            /\ pitching' = <<files.pitching>>
            /\ park_factors' = <<files.park_factors>>
            /\ woba_constants' = <<files.woba_constants>>
            /\ protection_scores' = <<files.protection_scores>>
            /\ \A i \in 1..6 : tables'[i] # <<>>]_vars

\* loaded with the caller's pitch-event table, which is not the files' table
C20_CallerAssignedTableLoaded ==
    /\ pc = "loaded"
    /\ statcast = <<files.statcast_df>> /\ files.statcast_df # files.statcast
    /\ batting = <<files.batting>> /\ protection_scores = <<files.protection_scores>>

AdjustmentsNonNull(r) ==
    /\ ~IsNaN(r.protection_adj) /\ ~IsNaN(r.park_adj)
    /\ ~IsNaN(r.pitcher_adj) /\ ~IsNaN(r.pitch_quality_adj)

\* C21: in every returned row whose four adjustment terms are numbers,
\* total_context_adj = protection_adj + park_adj - pitcher_adj +
\* pitch_quality_adj, and wOBA_true_talent = (wOBA - total_context_adj) * 0.9
\* + league-mean wOBA * 0.1, the league mean being the mean of wOBA over the
\* rows of the table the estimator was given.
C21_TotalAdjIsAmountRemoved ==
    Built =>
        \A j \in 1..Len(out[1]) :
            LET r == out[1][j]
                lg_woba == Mean(Column(out[1], "wOBA"))
            IN  AdjustmentsNonNull(r) =>
                    /\ r.total_context_adj =
                         Sub(Add(Add(r.protection_adj, r.park_adj), r.pitch_quality_adj),
                             r.pitcher_adj)
                    /\ r.wOBA_true_talent =
                         Add(Mul(Sub(r.wOBA, r.total_context_adj), Rat(9, 10)),
                             Mul(lg_woba, Rat(1, 10)))

\* a returned row with a protection, a pitcher and a pitch-quality term that
\* are not 0, beside a row with a park term that is not 0
C21_NonZeroTerms ==
    /\ Built
    /\ \E j, k \in 1..Len(out[1]) :
        /\ AdjustmentsNonNull(out[1][j]) /\ AdjustmentsNonNull(out[1][k])
        /\ out[1][j].protection_adj # Num(0) /\ out[1][j].pitcher_adj # Num(0)
        /\ out[1][j].pitch_quality_adj # Num(0)
        /\ out[1][k].park_adj # Num(0)

Shown == pc = "shown"

\* the layer names of a list, in the order of the sidebar
InSidebarOrder(layers) == SelectSeq(AllLayers, LAMBDA n : Selected(layers, n))

\* C22: for every list of layers, every row calculate_adjusted_woba returns
\* has adjusted_wOBA + total_selected_adj = wOBA and wOBA_diff =
\* -total_selected_adj, whatever the order of the list; with no layer
\* adjusted_wOBA = wOBA, with all four and no null term total_selected_adj =
\* total_context_adj; the table passed in is as it was, and debug_app.py's
\* function returns the same table.
C22_SelectedLayersBalance ==
    Shown =>
        /\ \A j \in 1..Len(adjusted[1]) :
            LET r == adjusted[1][j]
            IN  /\ Add(r.adjusted_wOBA, r.total_selected_adj) = r.wOBA
                /\ r.wOBA_diff = Neg(r.total_selected_adj)
                /\ files.layers = <<>> => r.adjusted_wOBA = r.wOBA
                /\ (LayerNames = {files.layers[i] : i \in 1..Len(files.layers)}
                        /\ AdjustmentsNonNull(r))
                    => r.total_selected_adj = r.total_context_adj
                /\ r.wOBA = out[1][j].wOBA
        /\ Len(adjusted[1]) = Len(out[1])
        /\ adjusted[1] = calculate_adjusted_woba(out[1], InSidebarOrder(files.layers))
        /\ adjusted[1] = calculate_adjusted_woba_debug(out[1], files.layers)
        /\ passed = <<out[1], out[1]>>
        /\ \A j \in 1..Len(out[1]) : "adjusted_wOBA" \notin DOMAIN out[1][j]

\* the four layers passed against the order of the sidebar, on a table
\* where every term is set: one batter with a pitcher term that is not 0,
\* one with a protection term and a park term that are not 0
C22_ReversedLayersAllTerms ==
    /\ Shown
    /\ files.layers = <<"Pitch Location", "Pitcher Quality", "Park Factors",
                        "Lineup Protection">>
    /\ \E j, k \in 1..Len(adjusted[1]) :
        /\ AdjustmentsNonNull(adjusted[1][j])
        /\ adjusted[1][j].pitcher_adj # Num(0)
        /\ adjusted[1][j].total_selected_adj # Num(0)
        /\ adjusted[1][j].adjusted_wOBA # adjusted[1][j].wOBA
        /\ AdjustmentsNonNull(adjusted[1][k])
        /\ adjusted[1][k].protection_adj # Num(0)
        /\ adjusted[1][k].park_adj # Num(0)

====
